---- MODULE Spec2Model ----
\* SourceProcessor (src/opendeepsearch/context_building/process_sources_pro.py):
\* construction, one process_sources call up to its await on the scraper, and
\* the resumption after the scraper answers (fetch, per-source transform, return).
\* Python indices are 0-based; sequences here are 1-based, so organic[i] below
\* is sources.data['organic'][i-1].
EXTENDS Integers, Sequences, FiniteSets, TLC

\* ---------------------------------------------------------------- bounds
MaxSources == 3
MaxChunks == 2
MaxNegative == 1
MaxQuestions == 2
MaxVotes == 2
MaxRuns == 2

\* ------------------------------------------------------- program constants
DefaultTopResults == 5
NoneValue == -1
ParallelWorkers == 32

Min(a, b) == IF a <= b THEN a ELSE b
Max(a, b) == IF a >= b THEN a ELSE b

\* ------------------------------------------------------------ data model
WikiA == "en.wikipedia.org/a"
WikiB == "en.wikipedia.org/b"
Other == "example.com/x"
Links == {WikiA, WikiB, Other}

\* 'wikipedia.org' in source['link']
IsWiki(link) == link \in {WikiA, WikiB}

\* Values of the html field. A Python str is tagged "str", a list "list";
\* the elements of v are <<content, n>>: n = 0 is the content itself, n > 0
\* its n-th chunk.
Unset == [t |-> "unset", v |-> <<>>]
EmptyStr == [t |-> "str", v |-> <<>>]
PriorHtml == [t |-> "str", v |-> << <<"old", 0>> >>]
List(s) == [t |-> "list", v |-> s]

FalsyEntry == [truthy |-> FALSE, link |-> "", html |-> Unset, title |-> ""]
SourceEntry(link, html) ==
    [truthy |-> TRUE, link |-> link, html |-> html, title |-> "title"]

Entries(html) == {FalsyEntry} \cup {SourceEntry(l, html) : l \in Links}

Organics(html) ==
    UNION {[1..m -> Entries(html)] : m \in 0..MaxSources}

NumElements == (0 - MaxNegative)..MaxSources

TopResultsArgs == {NoneValue, 0, 1}
ConfigTopResults == {NoneValue, 2}

VARIABLES
    pc,                  \* "new", "ready", "fetch", "done"
    top_results_arg,     \* the constructor's top_results argument (NoneValue: None)
    config_top_results,  \* config["top_results"] (NoneValue: key absent)
    top_results,         \* self.top_results
    has_organic,         \* sources.data['organic'] exists
    organic,             \* sources.data['organic']
    orig,                \* organic as it was when process_sources was called
    num_elements,
    pro_mode,
    chunk,
    valid_sources,       \* indices of the (i, source) pairs kept for the fetch
    scrape_args,         \* the link lists scrape_many was called with
    raw_contents,        \* what scrape_many returned: <<link, content>> in dict order
    html_contents,
    proc_log,            \* one record per iteration of the update loop
    ret,                 \* "none", "sources" (the container), "data" (sources.data), "raised"
    exc                  \* which exception the top-level handler caught, or "none"

vars == <<pc, top_results_arg, config_top_results, top_results, has_organic,
          organic, orig, num_elements, pro_mode, chunk, valid_sources,
          scrape_args, raw_contents, html_contents, proc_log, ret, exc>>

\* ------------------------------------------- the evaluation harness state
\* evals/eval_tasks.py: answer_questions on one trial file, its worker
\* threads running answer_single_question, and append_answer.
Questions == 1..MaxQuestions

VARIABLES
    run_pc,          \* "idle", "running", "completed", "raised", "interrupted"
    runs,            \* answer_questions runs started so far
    majority_votes,
    answered,        \* answered_questions as read from the file by the current run
    wpc,             \* per question: where its answer_single_question call is
    votes,           \* per question: len(answers)
    answer,          \* per question: the local `answer` ("unbound" before any assignment)
    cause,           \* per question: what went wrong in the call ("none", "exception", "timeout")
    lock,            \* APPEND_ANSWER_LOCK: 0 when free, else the holder
    file             \* the entries of the trial's answers file, in order

hvars == <<run_pc, runs, majority_votes, answered, wpc, votes, answer, cause,
           lock, file>>

HarnessInit ==
    /\ run_pc = "idle"
    /\ runs = 0
    /\ majority_votes = 1
    /\ answered = {}
    /\ wpc = [q \in Questions |-> "none"]
    /\ votes = [q \in Questions |-> 0]
    /\ answer = [q \in Questions |-> "unbound"]
    /\ cause = [q \in Questions |-> "none"]
    /\ lock = 0
    /\ file = <<>>

\* --------------------------------------------------------------- __init__
\* self.top_results = top_results or config.get("top_results", 5)
config_get(cfg, default) == IF cfg = NoneValue THEN default ELSE cfg

Truthy(x) == x # NoneValue /\ x # 0

init_top_results(arg, cfg) ==
    IF Truthy(arg) THEN arg ELSE config_get(cfg, DefaultTopResults)

Init ==
    /\ pc = "new"
    /\ top_results_arg = NoneValue
    /\ config_top_results = NoneValue
    /\ top_results = NoneValue
    /\ has_organic = TRUE
    /\ organic = <<>>
    /\ orig = <<>>
    /\ num_elements = 0
    /\ pro_mode = FALSE
    /\ chunk = TRUE
    /\ valid_sources = <<>>
    /\ scrape_args = <<>>
    /\ raw_contents = <<>>
    /\ html_contents = <<>>
    /\ proc_log = <<>>
    /\ ret = "none"
    /\ exc = "none"
    /\ HarnessInit

SourceProcessor_init ==
    /\ pc = "new"
    /\ \E arg \in TopResultsArgs, cfg \in ConfigTopResults :
        /\ top_results_arg' = arg
        /\ config_top_results' = cfg
        /\ top_results' = init_top_results(arg, cfg)
    /\ pc' = "ready"
    /\ UNCHANGED <<has_organic, organic, orig, num_elements, pro_mode, chunk,
                   valid_sources, scrape_args, raw_contents, html_contents,
                   proc_log, ret, exc>>
    /\ UNCHANGED hvars

\* ------------------------------------------------------ _get_valid_sources
\* s[:n]
PySlice(s, n) ==
    IF n >= 0 THEN SubSeq(s, 1, Min(n, Len(s)))
    ELSE SubSeq(s, 1, Max(Len(s) + n, 0))

Indices(m) == [i \in 1..m |-> i]

\* [(i, source) for i, source in enumerate(organic[:num_elements]) if source]
get_valid_sources(org, n) ==
    LET window == PySlice(org, n)
        keep(i) == window[i].truthy
    IN SelectSeq(Indices(Len(window)), keep)

\* the mode filter keeping every valid source
wiki_sources_keeps_all(valid, org) == valid

\* [(i, source) for i, source in valid_sources if 'wikipedia.org' in source['link']]
wiki_sources(valid, org) ==
    LET keep(i) == IsWiki(org[i].link)
    IN SelectSeq(valid, keep)

\* a handler that lets the exception out
on_exception_reraises(kind) ==
    [pc |-> "done", ret |-> "raised", exc |-> kind, valid |-> <<>>]

\* a handler that returns sources.data
on_exception_returns_data(kind) ==
    [pc |-> "done", ret |-> "data", exc |-> kind, valid |-> <<>>]

\* except Exception as e: ... return sources
on_exception(kind) ==
    [pc |-> "done", ret |-> "sources", exc |-> kind, valid |-> <<>>]

\* an entry without the short-circuit of line 62: with no Wikipedia link it
\* goes on to fetch every valid source
process_sources_entry_no_short_circuit(wf, org, n, pm) ==
    IF ~wf THEN on_exception("select")
    ELSE LET valid == get_valid_sources(org, n) IN
        IF valid = <<>>
        THEN [pc |-> "done", ret |-> "sources", exc |-> "none", valid |-> <<>>]
        ELSE IF ~pm /\ wiki_sources(valid, org) # <<>>
        THEN [pc |-> "fetch", ret |-> "none", exc |-> "none",
              valid |-> wiki_sources(valid, org)]
        ELSE [pc |-> "fetch", ret |-> "none", exc |-> "none", valid |-> valid]

\* process_sources from its entry to the await on the scraper (or to an
\* early return)
process_sources_entry(wf, org, n, pm) ==
    IF ~wf THEN on_exception("select")
    ELSE LET valid == get_valid_sources(org, n) IN
        IF valid = <<>>
        THEN [pc |-> "done", ret |-> "sources", exc |-> "none", valid |-> <<>>]
        ELSE IF ~pm
        THEN LET wiki == wiki_sources(valid, org) IN
            IF wiki = <<>>
            THEN [pc |-> "done", ret |-> "data", exc |-> "none", valid |-> <<>>]
            ELSE [pc |-> "fetch", ret |-> "none", exc |-> "none", valid |-> wiki]
        ELSE [pc |-> "fetch", ret |-> "none", exc |-> "none", valid |-> valid]

\* the links of the valid sources, last source first
links_of_reversed(valid, org) ==
    [j \in 1..Len(valid) |-> org[valid[Len(valid) + 1 - j]].link]

\* [s[1]['link'] for s in valid_sources]
links_of(valid, org) == [j \in 1..Len(valid) |-> org[valid[j]].link]

process_sources ==
    /\ pc = "ready"
    /\ \E wf \in BOOLEAN, prior \in {Unset, PriorHtml}, n \in NumElements,
          pm \in BOOLEAN, ch \in BOOLEAN :
        \E org \in (IF wf THEN Organics(prior) ELSE {<<>>}) :
            LET r == process_sources_entry(wf, org, n, pm) IN
            /\ has_organic' = wf
            /\ organic' = org
            /\ orig' = org
            /\ num_elements' = n
            /\ pro_mode' = pm
            /\ chunk' = ch
            /\ pc' = r.pc
            /\ ret' = r.ret
            /\ exc' = r.exc
            /\ valid_sources' = r.valid
            /\ scrape_args' =
                IF r.pc = "fetch" THEN <<links_of(r.valid, org)>> ELSE <<>>
    /\ UNCHANGED <<top_results_arg, config_top_results, top_results,
                   raw_contents, html_contents, proc_log>>
    /\ UNCHANGED hvars

\* ------------------------------------------------------------ the scraper
\* scrape_many returns a mapping keyed by link: one entry per distinct link,
\* listed in an order the scraper chooses.
RECURSIVE Dedup(_)
Dedup(s) ==
    IF s = <<>> THEN <<>>
    ELSE LET front == Dedup(SubSeq(s, 1, Len(s) - 1))
             last == s[Len(s)]
         IN IF \E j \in 1..Len(front) : front[j] = last
            THEN front ELSE Append(front, last)

Perms(m) == {p \in [1..m -> 1..m] : \A a, b \in 1..m : p[a] = p[b] => a = b}

PageOf(link) ==
    CASE link = WikiA -> "page a"
      [] link = WikiB -> "page b"
      [] OTHER -> "page x"

\* what a page may hold: nothing, or the text of that link's page
ContentsOf(link) == {"", PageOf(link)}

ScrapeResults(links) ==
    LET keys == Dedup(links)
        m == Len(keys)
    IN {[j \in 1..m |-> <<keys[p[j]], c[keys[p[j]]]>>] :
            p \in Perms(m),
            c \in {f \in [Links -> {"", "page a", "page b", "page x"}] :
                      \A l \in Links : f[l] \in ContentsOf(l)}}

\* [x['no_extraction'].content for x in raw_contents.values()]
fetch_html_contents(raw) == [j \in 1..Len(raw) |-> raw[j][2]]

\* ------------------------------------------------- chunker and reranker
\* What the chunker and the reranker do with one page: the chunker raises or
\* returns n chunks (none, or as many as the bound allows), the reranker raises
\* or returns its ranking.
ChunkCounts == {0, MaxChunks}
NoEnv == [split |-> "ok", n |-> 0, rerank |-> "ok"]
EnvOutcomes ==
    {[split |-> "raise", n |-> 0, rerank |-> "ok"]}
    \cup {[split |-> "ok", n |-> n, rerank |-> r] :
            n \in ChunkCounts, r \in {"ok", "raise"}}

\* self.chunker.split_text(html)
split_text(html, n) == [c \in 1..n |-> <<html, c>>]

\* self.semantic_searcher.get_reranked_documents(query, documents, top_k):
\* at most top_k of the documents
get_reranked_documents(documents, top_k) ==
    SubSeq(documents, 1, Min(top_k, Len(documents)))

\* top_k=self.top_results
rerank_top_k(tr) == tr

\* _process_html_content: the value stored and what was invoked on the way
process_html_content(html, env, tr) ==
    IF html = ""
    THEN [value |-> EmptyStr, split |-> "none", rerank |-> "none", top_k |-> NoneValue]
    ELSE IF env.split = "raise"
    THEN [value |-> EmptyStr, split |-> "raise", rerank |-> "none", top_k |-> NoneValue]
    ELSE LET documents == split_text(html, env.n) IN
        IF env.rerank = "raise"
        THEN [value |-> EmptyStr, split |-> "ok", rerank |-> "raise",
              top_k |-> rerank_top_k(tr)]
        ELSE [value |-> List(get_reranked_documents(documents, rerank_top_k(tr))),
              split |-> "ok", rerank |-> "ok", top_k |-> rerank_top_k(tr)]

\* self._process_html_content(html, query) if chunk else [html]
html_value(html, env, tr, ch) ==
    IF ch THEN process_html_content(html, env, tr)
    ELSE [value |-> List(<< <<html, 0>> >>), split |-> "none", rerank |-> "none",
          top_k |-> NoneValue]

\* number of iterations of: for (i, source), html in zip(valid_sources, html_contents)
zip_len(valid, contents) == Min(Len(valid), Len(contents))

\* _update_sources_with_content: the organic list after the loop
update_sources_with_content(org, valid, contents, envs, tr, ch) ==
    [i \in 1..Len(org) |->
        IF \E j \in 1..zip_len(valid, contents) : valid[j] = i
        THEN LET j == CHOOSE j \in 1..zip_len(valid, contents) : valid[j] = i
             IN [org[i] EXCEPT !.html = html_value(contents[j], envs[j], tr, ch).value]
        ELSE org[i]]

update_log(valid, contents, envs, tr, ch) ==
    [j \in 1..zip_len(valid, contents) |->
        LET r == html_value(contents[j], envs[j], tr, ch)
        IN [i |-> valid[j], content |-> contents[j], split |-> r.split,
            rerank |-> r.rerank, top_k |-> r.top_k]]

\* the chunker and reranker act only on a non-empty page of a chunked call
Envs(contents, m, ch) ==
    {e \in [1..m -> EnvOutcomes] :
        \A j \in 1..m : (~ch \/ contents[j] = "") => e[j] = NoEnv}

\* await self.scraper.scrape_many(links) raises
scrape_many_raises ==
    /\ pc = "fetch"
    /\ pc' = on_exception("scrape").pc
    /\ ret' = on_exception("scrape").ret
    /\ exc' = on_exception("scrape").exc
    /\ UNCHANGED <<top_results_arg, config_top_results, top_results, has_organic,
                   organic, orig, num_elements, pro_mode, chunk, valid_sources,
                   scrape_args, raw_contents, html_contents, proc_log>>
    /\ UNCHANGED hvars

\* scrape_many returns, but an entry has no 'no_extraction' result to read
content_read_raises ==
    /\ pc = "fetch"
    /\ \E raw \in ScrapeResults(scrape_args[1]) : raw_contents' = raw
    /\ pc' = on_exception("content").pc
    /\ ret' = on_exception("content").ret
    /\ exc' = on_exception("content").exc
    /\ UNCHANGED <<top_results_arg, config_top_results, top_results, has_organic,
                   organic, orig, num_elements, pro_mode, chunk, valid_sources,
                   scrape_args, html_contents, proc_log>>
    /\ UNCHANGED hvars

\* scrape_many returns; lines 67-68 run to the return
process_sources_resume ==
    /\ pc = "fetch"
    /\ \E raw \in ScrapeResults(scrape_args[1]) :
        LET contents == fetch_html_contents(raw) IN
        \E envs \in Envs(contents, zip_len(valid_sources, contents), chunk) :
            /\ raw_contents' = raw
            /\ html_contents' = contents
            /\ organic' = update_sources_with_content(
                              organic, valid_sources, contents, envs, top_results, chunk)
            /\ proc_log' = update_log(valid_sources, contents, envs, top_results, chunk)
    /\ pc' = "done"
    /\ ret' = "data"
    /\ exc' = "none"
    /\ UNCHANGED <<top_results_arg, config_top_results, top_results, has_organic,
                   orig, num_elements, pro_mode, chunk, valid_sources, scrape_args>>
    /\ UNCHANGED hvars

Next ==
    \/ SourceProcessor_init
    \/ process_sources
    \/ scrape_many_raises
    \/ content_read_raises
    \/ process_sources_resume

Spec == Init /\ [][Next]_<<vars, hvars>>

\* ------------------------------------------------------ answer_questions
\* json.loads(line)["original_question"] for every line of the file
answered_questions(f) == {f[i].question : i \in DOMAIN f}

\* a todo list that forgets what the file already holds
examples_todo_all(ds, done) == ds

\* [example for example in eval_ds[task] if example["question"] not in answered_questions]
examples_todo(ds, done) == ds \ done

Terminal == {"returned", "raised"}

\* lines 303-321 of one run: read the file, submit every example left
answer_questions_start ==
    /\ run_pc # "running"
    /\ runs < MaxRuns
    /\ \E mv \in 1..MaxVotes : majority_votes' = mv
    /\ runs' = runs + 1
    /\ run_pc' = "running"
    /\ answered' = answered_questions(file)
    /\ wpc' = [q \in Questions |->
                  IF q \in examples_todo(Questions, answered_questions(file))
                  THEN "queued" ELSE "none"]
    /\ votes' = [q \in Questions |-> 0]
    /\ answer' = [q \in Questions |-> "unbound"]
    /\ cause' = [q \in Questions |-> "none"]
    /\ lock' = 0
    /\ UNCHANGED file
    /\ UNCHANGED vars

\* a pool thread picks the call up (max_workers=parallel_workers); lines 218-224
worker_starts(q) ==
    /\ run_pc = "running"
    /\ wpc[q] = "queued"
    /\ Cardinality({w \in Questions : wpc[w] \notin {"none", "queued"} \cup Terminal})
           < ParallelWorkers
    /\ wpc' = [wpc EXCEPT ![q] = "loop"]
    /\ UNCHANGED <<run_pc, runs, majority_votes, answered, votes, answer, cause,
                   lock, file>>
    /\ UNCHANGED vars

\* ------------------------------------------------- answer_single_question
\* what run_with_timeout hands back
RunResults == {"tuple", "Timed Out"}

\* answer, tokens[, intermediate_steps] = ...: a tuple of the right length
\* unpacks, the 9-character string "Timed Out" does not (ValueError)
unpacks(result) == result = "tuple"

\* one iteration of the vote loop that succeeds: lines 226-246
vote_succeeds(q) ==
    /\ run_pc = "running"
    /\ wpc[q] = "loop"
    /\ votes[q] < majority_votes
    /\ unpacks("tuple")
    /\ votes' = [votes EXCEPT ![q] = votes[q] + 1]
    /\ answer' = [answer EXCEPT ![q] = "vote"]
    /\ UNCHANGED <<run_pc, runs, majority_votes, answered, wpc, cause, lock, file>>
    /\ UNCHANGED vars

\* init_agent or the agent's run raises: the handler of lines 263-265 runs
vote_raises(q) ==
    /\ run_pc = "running"
    /\ wpc[q] = "loop"
    /\ votes[q] < majority_votes
    /\ wpc' = [wpc EXCEPT ![q] = "build"]
    /\ cause' = [cause EXCEPT ![q] = "exception"]
    /\ UNCHANGED <<run_pc, runs, majority_votes, answered, votes, answer, lock, file>>
    /\ UNCHANGED vars

\* future.result(timeout) expires (line 185): leaving the `with` of line 182
\* waits for the submitted function
vote_times_out(q) ==
    /\ run_pc = "running"
    /\ wpc[q] = "loop"
    /\ votes[q] < majority_votes
    /\ wpc' = [wpc EXCEPT ![q] = "timeout_wait"]
    /\ cause' = [cause EXCEPT ![q] = "timeout"]
    /\ UNCHANGED <<run_pc, runs, majority_votes, answered, votes, answer, lock, file>>
    /\ UNCHANGED vars

\* the timed-out function ends, run_with_timeout returns "Timed Out" and the
\* unpacking of lines 232/244 runs
timed_out_run_returns(q) ==
    /\ run_pc = "running"
    /\ wpc[q] = "timeout_wait"
    /\ IF unpacks("Timed Out")
       THEN /\ votes' = [votes EXCEPT ![q] = votes[q] + 1]
            /\ answer' = [answer EXCEPT ![q] = "Timed Out"]
            /\ wpc' = [wpc EXCEPT ![q] = "loop"]
       ELSE /\ wpc' = [wpc EXCEPT ![q] = "build"]
            /\ UNCHANGED <<votes, answer>>
    /\ UNCHANGED <<run_pc, runs, majority_votes, answered, cause, lock, file>>
    /\ UNCHANGED vars

\* the loop is over: lines 248-261, the majority-vote call when len(answers) > 1
votes_counted(q) ==
    /\ run_pc = "running"
    /\ wpc[q] = "loop"
    /\ votes[q] = majority_votes
    /\ \/ /\ votes[q] > 1
          /\ answer' = [answer EXCEPT ![q] = "majority"]
          /\ UNCHANGED cause
       \/ /\ votes[q] > 1
          /\ cause' = [cause EXCEPT ![q] = "exception"]
          /\ UNCHANGED answer
       \/ /\ votes[q] <= 1
          /\ UNCHANGED <<answer, cause>>
    /\ wpc' = [wpc EXCEPT ![q] = "build"]
    /\ UNCHANGED <<run_pc, runs, majority_votes, answered, votes, lock, file>>
    /\ UNCHANGED vars

\* "answer": answer and "token_counts": token_count read locals that are bound
\* only once an iteration of the loop has completed
entry_builds(a) == a # "unbound"

\* lines 266-279: build annotated_example (UnboundLocalError when `answer` was
\* never assigned) and call append_answer
build_entry(q) ==
    /\ run_pc = "running"
    /\ wpc[q] = "build"
    /\ wpc' = [wpc EXCEPT ![q] = IF entry_builds(answer[q]) THEN "append" ELSE "raised"]
    /\ UNCHANGED <<run_pc, runs, majority_votes, answered, votes, answer, cause,
                   lock, file>>
    /\ UNCHANGED vars

\* ---------------------------------------------------------- append_answer
\* a lock that anyone may take
can_acquire_always(l) == TRUE

\* APPEND_ANSWER_LOCK.acquire() returns only when the lock is free
can_acquire(l) == l = 0

\* with APPEND_ANSWER_LOCK: the lock is taken
append_acquire(q) ==
    /\ run_pc = "running"
    /\ wpc[q] = "append"
    /\ can_acquire(lock)
    /\ lock' = q
    /\ wpc' = [wpc EXCEPT ![q] = "locked"]
    /\ UNCHANGED <<run_pc, runs, majority_votes, answered, votes, answer, cause, file>>
    /\ UNCHANGED vars

\* open(jsonl_file, "a")
append_open(q) ==
    /\ run_pc = "running"
    /\ wpc[q] = "locked"
    /\ wpc' = [wpc EXCEPT ![q] = "opened"]
    /\ UNCHANGED <<run_pc, runs, majority_votes, answered, votes, answer, cause,
                   lock, file>>
    /\ UNCHANGED vars

\* fp.write(json.dumps(entry) + "\n") and the close that ends the with block
append_write_close(q) ==
    /\ run_pc = "running"
    /\ wpc[q] = "opened"
    /\ file' = Append(file, [question |-> q, answer |-> answer[q]])
    /\ wpc' = [wpc EXCEPT ![q] = "closed"]
    /\ UNCHANGED <<run_pc, runs, majority_votes, answered, votes, answer, cause, lock>>
    /\ UNCHANGED vars

\* the lock is released, the assert of line 178 passes, both calls return
append_release(q) ==
    /\ run_pc = "running"
    /\ wpc[q] = "closed"
    /\ lock' = 0
    /\ wpc' = [wpc EXCEPT ![q] = "returned"]
    /\ UNCHANGED <<run_pc, runs, majority_votes, answered, votes, answer, cause, file>>
    /\ UNCHANGED vars

\* ------------------------------------------------- the end of a run
\* every future has a result and none raised: lines 322-325
answer_questions_completes ==
    /\ run_pc = "running"
    /\ \A q \in Questions : wpc[q] \in {"none", "returned"}
    /\ run_pc' = "completed"
    /\ UNCHANGED <<runs, majority_votes, answered, wpc, votes, answer, cause, lock, file>>
    /\ UNCHANGED vars

\* f.result() re-raises a worker's exception (line 323); the executor's
\* with block first waits for every submitted call
answer_questions_raises ==
    /\ run_pc = "running"
    /\ \A q \in Questions : wpc[q] \in {"none"} \cup Terminal
    /\ \E q \in Questions : wpc[q] = "raised"
    /\ run_pc' = "raised"
    /\ UNCHANGED <<runs, majority_votes, answered, wpc, votes, answer, cause, lock, file>>
    /\ UNCHANGED vars

\* the process is stopped in the middle of a run: its threads and its lock
\* are gone, the file keeps what was written
interrupt ==
    /\ run_pc = "running"
    /\ run_pc' = "interrupted"
    /\ wpc' = [q \in Questions |-> "none"]
    /\ lock' = 0
    /\ UNCHANGED <<runs, majority_votes, answered, votes, answer, cause, file>>
    /\ UNCHANGED vars

HarnessNext ==
    \/ answer_questions_start
    \/ \E q \in Questions : worker_starts(q)
    \/ \E q \in Questions : vote_succeeds(q)
    \/ \E q \in Questions : vote_raises(q)
    \/ \E q \in Questions : vote_times_out(q)
    \/ \E q \in Questions : timed_out_run_returns(q)
    \/ \E q \in Questions : votes_counted(q)
    \/ \E q \in Questions : build_entry(q)
    \/ \E q \in Questions : append_acquire(q)
    \/ \E q \in Questions : append_open(q)
    \/ \E q \in Questions : append_write_close(q)
    \/ \E q \in Questions : append_release(q)
    \/ answer_questions_completes
    \/ answer_questions_raises
    \/ interrupt

HarnessSpec == Init /\ [][HarnessNext]_<<vars, hvars>>

\* ================================================================ claims
Called == pc \in {"fetch", "done"}
Returned == pc = "done"

\* the organic indices the update loop assigned html to
Written == {proc_log[j].i : j \in DOMAIN proc_log}

\* the first n entries, as the claims count them: none when n <= 0
FirstN(org, n) == {i \in 1..Len(org) : i <= n}

\* the valid-source set as the claims describe it
ClaimValid(org, n, pm) ==
    {i \in FirstN(org, n) : org[i].truthy /\ (pm \/ IsWiki(org[i].link))}

\* the content the scraper returned for a link
ContentFor(link) ==
    LET j == CHOOSE j \in DOMAIN raw_contents : raw_contents[j][1] = link
    IN raw_contents[j][2]

\* C1: process_sources never lets an exception out: no state holds a raised
\* exception, a call waiting on the scraper can always go on, and a finished
\* call has returned the container or its data (the container whenever the
\* scraper or the read of its result failed).
C1_NeverPropagates ==
    /\ ret # "raised"
    /\ (pc = "fetch" => ENABLED Next)
    /\ (Returned => ret \in {"sources", "data"})
    /\ (Returned /\ ret = "data" => exc = "none")

C1_Witness ==
    /\ Returned
    /\ exc = "scrape"
    /\ ret = "sources"
    /\ pro_mode

\* C2: when the fetch step raises (scrape_many, or reading its result), the
\* call returns the sources container itself and no entry of organic differs
\* from what it was before the call.
C2_FetchFailureReturnsInput ==
    exc \in {"scrape", "content"} => (Returned /\ ret = "sources" /\ organic = orig)

C2_Witness ==
    /\ Returned
    /\ exc = "content"
    /\ Len(valid_sources) >= 2
    /\ ret = "sources"
    /\ organic = orig

\* C6: in non-pro mode, when the first num_elements entries hold a valid
\* source and no valid source among them has a Wikipedia link, the call
\* returns sources.data with organic unchanged and neither the scraper nor
\* the chunker nor the reranker is invoked.
C6_NoWikiReturnsRawData ==
    (/\ Called
     /\ has_organic
     /\ ~pro_mode
     /\ \E i \in FirstN(orig, num_elements) : orig[i].truthy
     /\ \A i \in FirstN(orig, num_elements) :
            orig[i].truthy => ~IsWiki(orig[i].link))
    => (/\ Returned
        /\ ret = "data"
        /\ exc = "none"
        /\ organic = orig
        /\ scrape_args = <<>>
        /\ proc_log = <<>>)

C6_Witness ==
    /\ Returned
    /\ ~pro_mode
    /\ num_elements >= 2
    /\ Len(orig) >= 2
    /\ \A i \in 1..Len(orig) : orig[i].truthy /\ orig[i].link = Other
    /\ ret = "data"

\* C7: in non-pro mode with exactly one Wikipedia link among the valid
\* sources of the first num_elements entries, a call that returns without an
\* error has set the html of that source and of no other; with chunk, the
\* html stored holds at most top_results chunks.
C7_OnlyTheWikiSource ==
    (/\ Returned
     /\ exc = "none"
     /\ ~pro_mode
     /\ Cardinality(ClaimValid(orig, num_elements, FALSE)) = 1)
    => \A i \in 1..Len(orig) :
        IF i \in ClaimValid(orig, num_elements, FALSE)
        THEN /\ organic[i].html \notin {Unset, PriorHtml}
             /\ [organic[i] EXCEPT !.html = orig[i].html] = orig[i]
             /\ chunk => Len(organic[i].html.v) <= top_results
             /\ (chunk /\ organic[i].html.t = "list") =>
                    \A c \in DOMAIN organic[i].html.v :
                        organic[i].html.v[c][1] = ContentFor(orig[i].link)
        ELSE organic[i] = orig[i]

C7_Witness ==
    /\ Returned
    /\ exc = "none"
    /\ ~pro_mode
    /\ chunk
    /\ Len(orig) = 2
    /\ orig[1].link = WikiA
    /\ orig[2].link = Other
    /\ num_elements = 2
    /\ top_results = 1
    /\ organic[1].html = List(<< <<"page a", 1>> >>)
    /\ organic[2] = orig[2]

\* C3: after a call on sources whose html fields were all unset, the number
\* of sources whose html is set is at most num_elements, and at most 1 in
\* non-pro mode whatever the number of Wikipedia links in the window. Stated
\* for the calls with num_elements >= 0, where the window is the first
\* num_elements entries on any reading.
C3_PopulatedCountBounded ==
    (/\ Returned
     /\ num_elements >= 0
     /\ \A i \in 1..Len(orig) : orig[i].html = Unset)
    => LET populated == {i \in 1..Len(organic) : organic[i].html # Unset}
       IN /\ Cardinality(populated) <= num_elements
          /\ (~pro_mode => Cardinality(populated) <= 1)

\* C4: a call changes nothing but the html of selected sources: organic keeps
\* its length and order, every field other than html keeps its value, and a
\* source outside the valid-source set (index >= num_elements, falsy, or in
\* non-pro mode not a Wikipedia link) keeps its html.
C4_OnlyHtmlOfValidSources ==
    Called =>
        /\ Len(organic) = Len(orig)
        /\ \A i \in 1..Len(orig) :
            /\ [organic[i] EXCEPT !.html = orig[i].html] = orig[i]
            /\ i \notin ClaimValid(orig, num_elements, pro_mode) =>
                   organic[i].html = orig[i].html

\* C5: with num_elements <= 0 no candidate is selected: the scraper is not
\* called, no html is touched and the call returns sources unmodified.
C5_NonPositiveSelectsNothing ==
    (Called /\ num_elements <= 0)
    => (/\ Returned
        /\ valid_sources = <<>>
        /\ scrape_args = <<>>
        /\ proc_log = <<>>
        /\ organic = orig
        /\ ret = "sources")

\* the links of the scraper's mapping, in the order it lists them
ResultLinks == [j \in DOMAIN raw_contents |-> raw_contents[j][1]]

\* C8: with chunk false, the html of every processed source is the
\* one-element list holding exactly the content fetched for that source's
\* link (empty content included), and neither the chunker nor the reranker
\* is invoked. Stated for the calls in which the scraper's mapping lists the
\* links in the order they were passed.
C8_ChunkFalseStoresFetchedContent ==
    (/\ Returned
     /\ ~chunk
     /\ scrape_args # <<>>
     /\ ResultLinks = Dedup(scrape_args[1]))
    => \A j \in DOMAIN proc_log :
        /\ organic[proc_log[j].i].html =
               List(<< <<ContentFor(orig[proc_log[j].i].link), 0>> >>)
        /\ proc_log[j].split = "none"
        /\ proc_log[j].rerank = "none"

\* an iteration of the update loop whose content processing failed
Failed(j) ==
    \/ proc_log[j].content = ""
    \/ proc_log[j].split = "raise"
    \/ proc_log[j].rerank = "raise"

\* C9: with chunk true, a failure while processing one source (empty
\* content, chunker or reranker raising) stays with that source: it gets the
\* empty result, every other valid source of the batch is populated (with
\* its ranked chunks unless its own processing failed), and the call returns
\* sources.data; empty content invokes neither the chunker nor the reranker.
C9_FailureContained ==
    (/\ Returned
     /\ chunk
     /\ \E j \in DOMAIN proc_log : Failed(j))
    => /\ ret = "data"
       /\ exc = "none"
       /\ \A j \in DOMAIN proc_log :
            /\ Failed(j) => organic[proc_log[j].i].html = EmptyStr
            /\ ~Failed(j) => organic[proc_log[j].i].html.t = "list"
            /\ proc_log[j].content = "" =>
                   (proc_log[j].split = "none" /\ proc_log[j].rerank = "none")
       /\ \A v \in DOMAIN valid_sources : valid_sources[v] \in Written

\* C10: the call returns the container itself exactly when the top-level
\* handler caught an exception, and sources.data on every other path.
C10_ReturnTellsDegraded ==
    Returned => (ret = "sources" <=> exc # "none")

\* C13: after a successful fetch every valid source is paired with the
\* content fetched for its own link and gets its html set, also when two
\* valid sources carry the same link. Stated for the calls in which the
\* scraper's mapping lists the links in the order they were passed.
C13_PairedWithOwnContent ==
    (/\ Returned
     /\ exc = "none"
     /\ scrape_args # <<>>
     /\ ResultLinks = Dedup(scrape_args[1]))
    => \A v \in DOMAIN valid_sources :
        /\ valid_sources[v] \in Written
        /\ \A j \in DOMAIN proc_log :
            proc_log[j].i = valid_sources[v] =>
                proc_log[j].content = ContentFor(orig[valid_sources[v]].link)

\* the sources left after the truthy filter and, in non-pro mode, the
\* Wikipedia filter
Selected ==
    LET valid == get_valid_sources(orig, num_elements)
    IN IF pro_mode THEN valid ELSE SelectSeq(valid, LAMBDA i : IsWiki(orig[i].link))

\* C14: one call calls the scraper at most once: once, with the links of the
\* selected sources in their original order, when that selection is not
\* empty, and never otherwise; no html is written while the scraper's answer
\* is awaited.
C14_ScraperCalledOnce ==
    /\ Len(scrape_args) <= 1
    /\ (Called /\ has_organic /\ Selected # <<>>) =>
           scrape_args = << [j \in 1..Len(Selected) |-> orig[Selected[j]].link] >>
    /\ (Called /\ (~has_organic \/ Selected = <<>>)) => scrape_args = <<>>
    /\ ~Called => scrape_args = <<>>
    /\ (pc = "fetch" \/ raw_contents = <<>>) => (organic = orig /\ proc_log = <<>>)

C14_Witness ==
    /\ Returned
    /\ pro_mode
    /\ Len(scrape_args) = 1
    /\ scrape_args[1] = <<Other, WikiA>>
    /\ raw_contents # <<>>
    /\ organic # orig

\* C15: the top_k passed to the reranker is the constructor's top_results
\* whenever one is given (0 included), else the configured top_results, else 5.
C15_TopKIsConstructorValue ==
    \A j \in DOMAIN proc_log :
        proc_log[j].rerank # "none" =>
            proc_log[j].top_k =
                IF top_results_arg # NoneValue THEN top_results_arg
                ELSE IF config_top_results # NoneValue THEN config_top_results
                ELSE DefaultTopResults

\* the threads that have the answers file open
Writers == {q \in Questions : wpc[q] \in {"opened"}}

\* C11: with any number of threads in append_answer, at most one has the file
\* open at a time (and it holds the lock), and the file only grows: a step
\* keeps every entry already written, in place, and adds exactly one entry
\* for each append_answer call that completes its write.
C11_SerializedAppendOnly ==
    /\ [](/\ Cardinality(Writers) <= 1
          /\ \A q \in Writers : lock = q)
    /\ [][/\ Len(file') >= Len(file)
          /\ SubSeq(file', 1, Len(file)) = file
          /\ Len(file') = Len(file)
                 + Cardinality({q \in Questions :
                                   wpc[q] = "opened" /\ wpc'[q] = "closed"})
          /\ \A q \in Questions :
                 (wpc[q] = "opened" /\ wpc'[q] = "closed") =>
                     file'[Len(file')].question = q]_<<vars, hvars>>

C11_Witness ==
    /\ run_pc = "running"
    /\ wpc[1] = "opened"
    /\ wpc[2] = "append"
    /\ lock = 1

\* C12: a question whose answering timed out ends as a result: its
\* answer_single_question call returns normally and the file holds an entry
\* for the question with the timed-out answer.
C12_TimeoutRecorded ==
    \A q \in Questions :
        (cause[q] = "timeout" /\ wpc[q] \in Terminal) =>
            /\ wpc[q] = "returned"
            /\ \E i \in DOMAIN file :
                   file[i] = [question |-> q, answer |-> "Timed Out"]

\* C16: when answering a question raises (agent construction, agent run or
\* majority-vote call, on any vote), answer_single_question still appends an
\* entry for it and returns normally, and the run does not raise for it.
C16_FailureStillRecorded ==
    /\ \A q \in Questions :
           (cause[q] = "exception" /\ wpc[q] \in Terminal) =>
               /\ wpc[q] = "returned"
               /\ \E i \in DOMAIN file : file[i].question = q
    /\ run_pc = "raised" =>
           \A q \in Questions : wpc[q] = "raised" => cause[q] # "exception"

\* C17: over any sequence of runs on one trial file, interrupted or not, the
\* file holds at most one entry per question, and a run submits no question
\* whose entry the file already held when the run began.
C17_OneEntryPerQuestion ==
    /\ \A i, j \in DOMAIN file : file[i].question = file[j].question => i = j
    /\ run_pc = "running" =>
           \A q \in Questions : wpc[q] # "none" => q \notin answered
    /\ answered \subseteq answered_questions(file)

C17_Witness ==
    /\ runs = 2
    /\ run_pc = "completed"
    /\ answered = {2}
    /\ Len(file) = 2
    /\ file[2].question = 1
====
